---- MODULE Spec2Model ----
(***************************************************************************)
(* Version reconciliation core of the extension monitoring dashboard       *)
(* (src/app/page.tsx): compareVersions, isSequentialVersionUpdate,          *)
(* normalizeExtensionName, determineGroupStatus, determineBrowserRowStatus. *)
(* src/components/extension-monitor.tsx holds the same compareVersions and  *)
(* the same name canonicalization, inlined in groupExtensionsByName.        *)
(*                                                                         *)
(* A JavaScript string is a sequence of one-character strings, so that      *)
(* split, join, includes, trim, Number() and number-to-string conversion    *)
(* are computed character by character as the runtime computes them.        *)
(* A JavaScript number is a natural number or NaN.  NaN is the value -1:    *)
(* the strings of this model carry no sign character, so Number() never     *)
(* yields a negative number and -1 is free to stand for NaN.                *)
(***************************************************************************)
EXTENDS Integers, Sequences, FiniteSets, TLC

VARIABLES pc,             \* the calls made so far on the inputs of this run
          versionA,       \* first argument of the version functions
          versionB,       \* second argument of the version functions
          cmpResult,      \* return value of compareVersions(versionA, versionB)
          seqResult,      \* return value of isSequentialVersionUpdate(versionA, versionB)
          extensionName,  \* argument of normalizeExtensionName
          normalizedName, \* normalizeExtensionName(extensionName)
          renormalizedName, \* normalizeExtensionName(normalizedName)
          group,          \* an ExtensionGroup: [browsers, submittedVersion]
          groupStatus,    \* return value of determineGroupStatus(group)
          rowStatus,      \* rowStatus[i]: determineBrowserRowStatus(browsers[i], group)
          apiData,        \* the JSON document of the upstream feed
          processed,      \* return of processExtensionData(apiData): [threw, groups]
          variant,        \* which ExtensionMonitor runs: "page" or "component"
          mpc,            \* where the monitor's fetch chain stands
          upstream,       \* what the route's fetch of the feed yields: [rejected, status, body]
          response,       \* what fetch("/api/extensions") yields: [rejected, status, body]
          thrown,         \* the error on its way to the catch handler: [raised, isError, message]
          extensions,     \* React state extensions
          loading,        \* React state loading
          error,          \* React state error: Null or a message
          coreCalls       \* the documents the grouping core has been invoked on

\* the variables of processExtensionData applied to a feed
processVars == <<apiData, processed>>

\* the variables of the ExtensionMonitor component
monitorVars == <<variant, mpc, upstream, response, thrown, extensions, loading, error, coreCalls>>

vars == <<pc, versionA, versionB, cmpResult, seqResult, extensionName,
          normalizedName, renormalizedName, group, groupStatus, rowStatus,
          processVars, monitorVars>>

-----------------------------------------------------------------------------
(* Bounds *)

\* most dot-separated segments of a generated version string
MaxSegs == 3
\* most tokens concatenated into a generated extension name
MaxNameTokens == 5
\* most store records (browsers) in a group
MaxBrowsers == 2
\* most raw records in the store lists of a generated feed
MaxRecords == 2

-----------------------------------------------------------------------------
(* JavaScript values *)

\* the value undefined (no string: every string is a sequence of single characters)
Undefined == <<"undefined">>

NaN == -1

DigitChars == <<"0", "1", "2", "3", "4", "5", "6", "7", "8", "9">>

IsDigit(c) == \E d \in 1..10 : DigitChars[d] = c

DigitVal(c) == (CHOOSE d \in 1..10 : DigitChars[d] = c) - 1

IsWhiteSpace(c) == c = " "

\* String.prototype.trim
RECURSIVE TrimStart(_)
TrimStart(s) ==
    IF s # <<>> /\ IsWhiteSpace(Head(s)) THEN TrimStart(Tail(s)) ELSE s

RECURSIVE TrimEnd(_)
TrimEnd(s) ==
    IF s # <<>> /\ IsWhiteSpace(s[Len(s)]) THEN TrimEnd(SubSeq(s, 1, Len(s) - 1)) ELSE s

Trim(s) == TrimEnd(TrimStart(s))

\* value of a string of decimal digits
RECURSIVE DecimalValue(_)
DecimalValue(s) ==
    IF s = <<>> THEN 0
    ELSE 10 * DecimalValue(SubSeq(s, 1, Len(s) - 1)) + DigitVal(s[Len(s)])

\* Number(s) on strings of digits, letters and blanks: blanks are trimmed, the
\* empty string is 0, a string of decimal digits is its value (leading zeros
\* allowed), anything else is NaN
Number(s) ==
    LET t == Trim(s)
    IN  IF t = <<>> THEN 0
        ELSE IF \A i \in 1..Len(t) : IsDigit(t[i]) THEN DecimalValue(t)
        ELSE NaN

\* String(n) of a number: NaN is "NaN", a natural number its decimal digits
RECURSIVE NumberToString(_)
NumberToString(n) ==
    IF n = NaN THEN <<"N", "a", "N">>
    ELSE IF n < 10 THEN <<DigitChars[n + 1]>>
    ELSE NumberToString(n \div 10) \o <<DigitChars[(n % 10) + 1]>>

\* s.split("."): the segments between the dots, at least one
RECURSIVE SplitDot(_)
SplitDot(s) ==
    IF \A i \in 1..Len(s) : s[i] # "."
    THEN <<s>>
    ELSE LET i == CHOOSE k \in 1..Len(s) :
                      s[k] = "." /\ \A m \in 1..(k - 1) : s[m] # "."
         IN  <<SubSeq(s, 1, i - 1)>> \o SplitDot(SubSeq(s, i + 1, Len(s)))

\* s.split(".").map(Number)
VersionParts(s) ==
    LET segs == SplitDot(s) IN [i \in 1..Len(segs) |-> Number(segs[i])]

\* numbers.join("."): each element converted with String()
RECURSIVE JoinDot(_)
JoinDot(parts) ==
    IF Len(parts) = 0 THEN <<>>
    ELSE IF Len(parts) = 1 THEN NumberToString(parts[1])
    ELSE NumberToString(parts[1]) \o <<".">> \o JoinDot(Tail(parts))

\* haystack.includes(needle)
Includes(haystack, needle) ==
    \E i \in 0..(Len(haystack) - Len(needle)) :
        SubSeq(haystack, i + 1, i + Len(needle)) = needle

-----------------------------------------------------------------------------
(* compareVersions *)

\* parts[i] || 0 (0-based index i): undefined past the end, NaN and 0 all give 0
PartOrZero(parts, i) ==
    IF i + 1 > Len(parts) THEN 0
    ELSE IF parts[i + 1] = NaN THEN 0
    ELSE parts[i + 1]

Max(a, b) == IF a >= b THEN a ELSE b

\* the for loop of compareVersions from index i on
RECURSIVE CompareLoop(_, _, _)
CompareLoop(partsA, partsB, i) ==
    IF i < Max(Len(partsA), Len(partsB))
    THEN LET partA == PartOrZero(partsA, i)
             partB == PartOrZero(partsB, i)
         IN  IF partA # partB THEN partA - partB
             ELSE CompareLoop(partsA, partsB, i + 1)
    ELSE 0

\* compareVersions with the operands of the subtraction exchanged
RECURSIVE CompareLoopSwapped(_, _, _)
CompareLoopSwapped(partsA, partsB, i) ==
    IF i < Max(Len(partsA), Len(partsB))
    THEN LET partA == PartOrZero(partsA, i)
             partB == PartOrZero(partsB, i)
         IN  IF partA # partB THEN partB - partA
             ELSE CompareLoopSwapped(partsA, partsB, i + 1)
    ELSE 0

compareVersionsSwapped(a, b) ==
    CompareLoopSwapped(VersionParts(a), VersionParts(b), 0)

\* compareVersions with the loop running over the segments of the first operand only
RECURSIVE CompareLoopOverA(_, _, _)
CompareLoopOverA(partsA, partsB, i) ==
    IF i < Len(partsA)
    THEN LET partA == PartOrZero(partsA, i)
             partB == PartOrZero(partsB, i)
         IN  IF partA # partB THEN partA - partB
             ELSE CompareLoopOverA(partsA, partsB, i + 1)
    ELSE 0

compareVersionsOverA(a, b) ==
    CompareLoopOverA(VersionParts(a), VersionParts(b), 0)

compareVersions(a, b) == CompareLoop(VersionParts(a), VersionParts(b), 0)

-----------------------------------------------------------------------------
(* isSequentialVersionUpdate *)

\* testVersion[i]++ : NaN stays NaN
Increment(n) == IF n = NaN THEN NaN ELSE n + 1

\* testVersion after the body of the outer loop for index i (0-based)
TestVersion(currentParts, i) ==
    [j \in 1..Len(currentParts) |->
        IF j < i + 1 THEN currentParts[j]
        ELSE IF j = i + 1 THEN Increment(currentParts[j])
        ELSE 0]

\* the outer for loop of isSequentialVersionUpdate from index i on
RECURSIVE SequentialLoop(_, _, _)
SequentialLoop(currentParts, targetVersion, i) ==
    IF i < Len(currentParts)
    THEN IF JoinDot(TestVersion(currentParts, i)) = targetVersion THEN TRUE
         ELSE SequentialLoop(currentParts, targetVersion, i + 1)
    ELSE FALSE

\* isSequentialVersionUpdate without the inner loop that zeroes the later segments
TestVersionNoReset(currentParts, i) ==
    [j \in 1..Len(currentParts) |->
        IF j = i + 1 THEN Increment(currentParts[j]) ELSE currentParts[j]]

RECURSIVE SequentialLoopNoReset(_, _, _)
SequentialLoopNoReset(currentParts, targetVersion, i) ==
    IF i < Len(currentParts)
    THEN IF JoinDot(TestVersionNoReset(currentParts, i)) = targetVersion THEN TRUE
         ELSE SequentialLoopNoReset(currentParts, targetVersion, i + 1)
    ELSE FALSE

isSequentialNoReset(currentVersion, targetVersion) ==
    SequentialLoopNoReset(VersionParts(currentVersion), targetVersion, 0)

isSequentialVersionUpdate(currentVersion, targetVersion) ==
    SequentialLoop(VersionParts(currentVersion), targetVersion, 0)

-----------------------------------------------------------------------------
(* normalizeExtensionName *)

AdblockPlus == <<"A", "d", "b", "l", "o", "c", "k", " ", "P", "l", "u", "s">>
AdBlock == <<"A", "d", "B", "l", "o", "c", "k">>

\* normalizeExtensionName testing for "Adblock" where the code tests for "AdBlock"
normalizeExtensionNameLowerB(name) ==
    IF Includes(name, AdblockPlus) THEN AdblockPlus
    ELSE IF Includes(name, <<"A", "d", "b", "l", "o", "c", "k">>) THEN AdBlock
    ELSE name

normalizeExtensionName(name) ==
    IF Includes(name, AdblockPlus) THEN AdblockPlus
    ELSE IF Includes(name, AdBlock) THEN AdBlock
    ELSE name

-----------------------------------------------------------------------------
(* determineGroupStatus, determineBrowserRowStatus *)

\* !group.submittedVersion?.trim() : undefined, "" and blank strings
NoTrimmedSubmittedVersion(g) ==
    \/ g.submittedVersion = Undefined
    \/ Trim(g.submittedVersion) = <<>>

\* !group.submittedVersion : undefined and ""
NoSubmittedVersion(g) ==
    \/ g.submittedVersion = Undefined
    \/ g.submittedVersion = <<>>

\* group.browsers.every(browser => compareVersions(browser.version, submitted) === 0)
allVersionsAreLive(g) ==
    \A i \in 1..Len(g.browsers) :
        compareVersions(g.browsers[i].version, g.submittedVersion) = 0

\* group.browsers.some(browser => behind and not a sequential predecessor)
hasVersionMismatch(g) ==
    \E i \in 1..Len(g.browsers) :
        LET versionComparison ==
                compareVersions(g.browsers[i].version, g.submittedVersion)
        IN  IF versionComparison >= 0 THEN FALSE
            ELSE ~isSequentialVersionUpdate(g.browsers[i].version, g.submittedVersion)

StatusLive(m) == [status |-> "live", message |-> m]
StatusMismatch == [status |-> "mismatch", message |-> "Version mismatch detected"]
StatusPending == [status |-> "pending", message |-> "Updates pending approval"]

\* determineGroupStatus with every() where the code has some()
determineGroupStatusEvery(g) ==
    IF NoTrimmedSubmittedVersion(g) THEN StatusLive("No submission data")
    ELSE IF allVersionsAreLive(g) THEN StatusLive("All versions synchronized")
    ELSE IF \A i \in 1..Len(g.browsers) :
               /\ compareVersions(g.browsers[i].version, g.submittedVersion) < 0
               /\ ~isSequentialVersionUpdate(g.browsers[i].version, g.submittedVersion)
         THEN StatusMismatch
    ELSE StatusPending

\* determineGroupStatus without the trim() of the submitted version
determineGroupStatusNoTrim(g) ==
    IF NoSubmittedVersion(g) THEN StatusLive("No submission data")
    ELSE IF allVersionsAreLive(g) THEN StatusLive("All versions synchronized")
    ELSE IF hasVersionMismatch(g) THEN StatusMismatch
    ELSE StatusPending

\* determineGroupStatus comparing the version strings with === instead of compareVersions
determineGroupStatusStringEqual(g) ==
    IF NoTrimmedSubmittedVersion(g) THEN StatusLive("No submission data")
    ELSE IF \A i \in 1..Len(g.browsers) : g.browsers[i].version = g.submittedVersion
         THEN StatusLive("All versions synchronized")
    ELSE IF hasVersionMismatch(g) THEN StatusMismatch
    ELSE StatusPending

determineGroupStatus(g) ==
    IF NoTrimmedSubmittedVersion(g) THEN StatusLive("No submission data")
    ELSE IF allVersionsAreLive(g) THEN StatusLive("All versions synchronized")
    ELSE IF hasVersionMismatch(g) THEN StatusMismatch
    ELSE StatusPending

\* determineBrowserRowStatus reporting a store ahead of the submission as live
determineBrowserRowStatusAheadLive(browser, g) ==
    IF NoSubmittedVersion(g) THEN "LIVE"
    ELSE LET versionComparison == compareVersions(browser.version, g.submittedVersion)
         IN  IF versionComparison >= 0 THEN "LIVE"
             ELSE IF isSequentialVersionUpdate(browser.version, g.submittedVersion)
                  THEN "PENDING"
             ELSE "MISMATCH"

\* the status label of the row (the textColor that comes with it is fixed by the label)
determineBrowserRowStatus(browser, g) ==
    IF NoSubmittedVersion(g) THEN "LIVE"
    ELSE LET versionComparison == compareVersions(browser.version, g.submittedVersion)
         IN  IF versionComparison = 0 THEN "LIVE"
             ELSE IF versionComparison < 0
                  THEN IF isSequentialVersionUpdate(browser.version, g.submittedVersion)
                       THEN "PENDING"
                       ELSE "MISMATCH"
             ELSE "MISMATCH"

-----------------------------------------------------------------------------
(* processExtensionData *)

(* The raw feed (ApiResponse) is a JSON document: null, or an object given as  *)
(* the sequence of its entries in insertion order, the order of Object.entries *)
(* and Object.values.  The value of an entry is an array of raw records        *)
(* (isArray, items), or something else; when it is a mapping from slug to      *)
(* GitlabInfo, map holds its "adblockplus" and "adblock" properties.  A raw    *)
(* record and a BrowserInfo carry the version; lastUpdated, users, url and     *)
(* lastChecked are copied from the one to the other untouched and left out.    *)

\* a property that is not there (gitlabData.adblock being undefined)
NoInfo == [present |-> FALSE, version |-> Undefined, releaseDate |-> Undefined]

EmptyMap == [adblockplus |-> NoInfo, adblock |-> NoInfo]

UpperChars == <<"A", "B", "C", "D", "E", "F", "G", "H", "I", "J", "K", "L", "M",
                "N", "O", "P", "Q", "R", "S", "T", "U", "V", "W", "X", "Y", "Z">>
LowerChars == <<"a", "b", "c", "d", "e", "f", "g", "h", "i", "j", "k", "l", "m",
                "n", "o", "p", "q", "r", "s", "t", "u", "v", "w", "x", "y", "z">>

\* String.prototype.toLowerCase
ToLowerCase(s) ==
    [i \in 1..Len(s) |->
        IF \E k \in 1..26 : UpperChars[k] = s[i]
        THEN LowerChars[CHOOSE k \in 1..26 : UpperChars[k] = s[i]]
        ELSE s[i]]

\* s.replace(/\s+/g, '')
RECURSIVE RemoveWhiteSpace(_)
RemoveWhiteSpace(s) ==
    IF s = <<>> THEN <<>>
    ELSE IF IsWhiteSpace(Head(s)) THEN RemoveWhiteSpace(Tail(s))
    ELSE <<Head(s)>> \o RemoveWhiteSpace(Tail(s))

\* a string value that is neither undefined nor empty
Truthy(v) == v # Undefined /\ v # <<>>

\* extension.extension || extension.name
RawExtensionName(extension) ==
    IF Truthy(extension.extension) THEN extension.extension ELSE extension.name

GroupIndex(extensionGroups, n) ==
    CHOOSE k \in 1..Len(extensionGroups) : extensionGroups[k].name = n

\* the body of extensionsData.forEach: extensionGroups after one raw record
AddExtension(extensionGroups, browserName, extension) ==
    LET rawName == RawExtensionName(extension)
    IN  IF ~Truthy(rawName) THEN extensionGroups
        ELSE LET n == normalizeExtensionName(rawName)
                 created ==
                     IF \E k \in 1..Len(extensionGroups) : extensionGroups[k].name = n
                     THEN extensionGroups
                     ELSE Append(extensionGroups, [name |-> n, browsers |-> <<>>])
                 k == GroupIndex(created, n)
             IN  [created EXCEPT ![k].browsers =
                     Append(@, [browser |-> browserName, version |-> extension.version])]

\* extensionsData.forEach from record j on
RECURSIVE AddExtensions(_, _, _, _)
AddExtensions(extensionGroups, browserName, extensionsData, j) ==
    IF j > Len(extensionsData) THEN extensionGroups
    ELSE AddExtensions(AddExtension(extensionGroups, browserName, extensionsData[j]),
                       browserName, extensionsData, j + 1)

\* Object.entries(apiData).forEach without the test for the key 'gitlab'
RECURSIVE AddStoresWithRegistry(_, _, _)
AddStoresWithRegistry(extensionGroups, entries, i) ==
    IF i > Len(entries) THEN extensionGroups
    ELSE IF ~entries[i].isArray
         THEN AddStoresWithRegistry(extensionGroups, entries, i + 1)
    ELSE AddStoresWithRegistry(
             AddExtensions(extensionGroups, entries[i].key, entries[i].items, 1),
             entries, i + 1)

\* Object.entries(apiData).forEach from entry i on
RECURSIVE AddStores(_, _, _)
AddStores(extensionGroups, entries, i) ==
    IF i > Len(entries) THEN extensionGroups
    ELSE IF entries[i].key = "gitlab" \/ ~entries[i].isArray
         THEN AddStores(extensionGroups, entries, i + 1)
    ELSE AddStores(AddExtensions(extensionGroups, entries[i].key, entries[i].items, 1),
                   entries, i + 1)

\* (apiData.gitlab as Record<string, GitlabInfo>) || {}
GitlabData(entries) ==
    IF \E i \in 1..Len(entries) : entries[i].key = "gitlab"
    THEN entries[CHOOSE i \in 1..Len(entries) : entries[i].key = "gitlab"].map
    ELSE EmptyMap

\* allVersions.reduce((latest, current) => ...) from element i on
RECURSIVE ReduceLatest(_, _, _)
ReduceLatest(allVersions, latest, i) ==
    IF i > Len(allVersions) THEN latest
    ELSE ReduceLatest(allVersions,
                      IF compareVersions(allVersions[i], latest) > 0
                      THEN allVersions[i] ELSE latest,
                      i + 1)

\* the reduce with >= where the code has > : of equal versions the last one wins
RECURSIVE ReduceLatestTiesLast(_, _, _)
ReduceLatestTiesLast(allVersions, latest, i) ==
    IF i > Len(allVersions) THEN latest
    ELSE ReduceLatestTiesLast(allVersions,
                              IF compareVersions(allVersions[i], latest) >= 0
                              THEN allVersions[i] ELSE latest,
                              i + 1)

LatestVersionTiesLast(allVersions) ==
    ReduceLatestTiesLast(allVersions, allVersions[1], 2)

LatestVersion(allVersions) == ReduceLatest(allVersions, allVersions[1], 2)

\* group.name.toLowerCase().replace(/\s+/g, '')
Slug(n) == RemoveWhiteSpace(ToLowerCase(n))

SlugAdblockPlus == <<"a", "d", "b", "l", "o", "c", "k", "p", "l", "u", "s">>
SlugAdblock == <<"a", "d", "b", "l", "o", "c", "k">>

\* the selection with the looser 'adblock' test made first
GitlabInfoForAdblockFirst(n, gitlabData) ==
    IF Includes(Slug(n), SlugAdblock) THEN gitlabData.adblock
    ELSE IF Includes(Slug(n), SlugAdblockPlus) THEN gitlabData.adblockplus
    ELSE NoInfo

\* the gitlabInfo selected for a group name
GitlabInfoFor(n, gitlabData) ==
    IF Includes(Slug(n), SlugAdblockPlus) THEN gitlabData.adblockplus
    ELSE IF Includes(Slug(n), SlugAdblock) THEN gitlabData.adblock
    ELSE NoInfo

\* the body of Object.values(extensionGroups).map
FinishGroup(g, gitlabData) ==
    LET allVersions == [i \in 1..Len(g.browsers) |-> g.browsers[i].version]
        gitlabInfo == GitlabInfoFor(g.name, gitlabData)
    IN  [name |-> g.name,
         browsers |-> g.browsers,
         latestVersion |-> LatestVersion(allVersions),
         isConsistent |-> \A i \in 1..Len(allVersions) : allVersions[i] = allVersions[1],
         releaseDate |-> gitlabInfo.releaseDate,
         submittedVersion |-> gitlabInfo.version]

\* the groups processExtensionData returns for an object
ProcessEntries(entries) ==
    LET extensionGroups == AddStores(<<>>, entries, 1)
    IN  [k \in 1..Len(extensionGroups) |->
            FinishGroup(extensionGroups[k], GitlabData(entries))]

\* processExtensionData(apiData): Object.entries(null) throws a TypeError
processExtensionData(data) ==
    IF data.kind = "null" THEN [threw |-> TRUE, groups |-> <<>>]
    ELSE [threw |-> FALSE, groups |-> ProcessEntries(data.entries)]

-----------------------------------------------------------------------------
(* Values of the state that a specification leaves untouched *)

\* the value null
Null == "null"

NoData == [kind |-> "none", entries |-> <<>>]
NoResult == [threw |-> FALSE, groups |-> <<>>]
NoResponse == [rejected |-> FALSE, status |-> 0, body |-> NoData]
NoThrown == [raised |-> FALSE, isError |-> FALSE, message |-> ""]

ProcessIdle ==
    /\ apiData = NoData
    /\ processed = NoResult

MonitorIdle ==
    /\ variant = "none"
    /\ mpc = "none"
    /\ upstream = NoResponse
    /\ response = NoResponse
    /\ thrown = NoThrown
    /\ extensions = <<>>
    /\ loading = FALSE
    /\ error = Null
    /\ coreCalls = <<>>

-----------------------------------------------------------------------------
(* Inputs of the version functions *)

\* strings joined with dots
RECURSIVE JoinStrings(_)
JoinStrings(segs) ==
    IF Len(segs) = 0 THEN <<>>
    ELSE IF Len(segs) = 1 THEN segs[1]
    ELSE segs[1] \o <<".">> \o JoinStrings(Tail(segs))

SegStrings == {<<"0">>, <<"1">>, <<"2">>, <<"9">>}

\* the version strings of 1..MaxSegs segments over SegStrings
GeneratedVersions ==
    {JoinStrings(segs) : segs \in UNION {[1..n -> SegStrings] : n \in 1..MaxSegs}}

\* strings a feed may also carry: empty, empty segments, leading zeros, blanks,
\* two-digit segments, and segments that are no numbers
OtherVersions ==
    { <<>>,
      <<"1", ".">>,
      <<".", "1">>,
      <<"0", "1">>,
      <<"1", ".", "0", "1">>,
      <<" ", "1">>,
      <<"1", "0">>,
      <<"1", ".", "1", "0">>,
      <<"a">>,
      <<"1", ".", "a">>,
      <<"a", ".", "1">>,
      <<"N", "a", "N">> }

Versions == GeneratedVersions \cup OtherVersions

-----------------------------------------------------------------------------
(* State machine: the version functions applied to a pair of strings *)

NoGroup == [browsers |-> <<>>, submittedVersion |-> Undefined]
NoStatus == [status |-> "none", message |-> ""]

InitVersion ==
    /\ pc = "start"
    /\ versionA \in Versions
    /\ versionB \in Versions
    /\ cmpResult = 0
    /\ seqResult = FALSE
    /\ extensionName = <<>>
    /\ normalizedName = <<>>
    /\ renormalizedName = <<>>
    /\ group = NoGroup
    /\ groupStatus = NoStatus
    /\ rowStatus = <<>>
    /\ ProcessIdle
    /\ MonitorIdle

CallCompareVersions ==
    /\ pc = "start"
    /\ cmpResult' = compareVersions(versionA, versionB)
    /\ pc' = "compareVersions"
    /\ UNCHANGED <<versionA, versionB, seqResult, extensionName, normalizedName,
                   renormalizedName, group, groupStatus, rowStatus,
                   processVars, monitorVars>>

CallIsSequentialVersionUpdate ==
    /\ pc = "start"
    /\ seqResult' = isSequentialVersionUpdate(versionA, versionB)
    /\ pc' = "isSequentialVersionUpdate"
    /\ UNCHANGED <<versionA, versionB, cmpResult, extensionName, normalizedName,
                   renormalizedName, group, groupStatus, rowStatus,
                   processVars, monitorVars>>

NextVersion == CallCompareVersions \/ CallIsSequentialVersionUpdate

SpecVersion == InitVersion /\ [][NextVersion]_vars

-----------------------------------------------------------------------------
(* State machine: normalizeExtensionName applied to a name, and to its result *)

NameTokens ==
    { <<"A", "d">>,
      <<"b", "l", "o", "c", "k">>,
      <<"B", "l", "o", "c", "k">>,
      <<" ">>,
      <<"P", "l", "u", "s">>,
      <<"X">> }

RECURSIVE Concat(_)
Concat(strings) ==
    IF Len(strings) = 0 THEN <<>> ELSE Head(strings) \o Concat(Tail(strings))

\* the non-empty names of 1..MaxNameTokens tokens (an empty name is never normalized)
Names ==
    {Concat(toks) : toks \in UNION {[1..n -> NameTokens] : n \in 1..MaxNameTokens}}

InitName ==
    /\ pc = "start"
    /\ extensionName \in Names
    /\ normalizedName = <<>>
    /\ renormalizedName = <<>>
    /\ versionA = <<>>
    /\ versionB = <<>>
    /\ cmpResult = 0
    /\ seqResult = FALSE
    /\ group = NoGroup
    /\ groupStatus = NoStatus
    /\ rowStatus = <<>>
    /\ ProcessIdle
    /\ MonitorIdle

CallNormalizeExtensionName ==
    /\ pc = "start"
    /\ normalizedName' = normalizeExtensionName(extensionName)
    /\ pc' = "normalized"
    /\ UNCHANGED <<versionA, versionB, cmpResult, seqResult, extensionName,
                   renormalizedName, group, groupStatus, rowStatus,
                   processVars, monitorVars>>

\* the canonical name canonicalized again
ReapplyNormalizeExtensionName ==
    /\ pc = "normalized"
    /\ renormalizedName' = normalizeExtensionName(normalizedName)
    /\ pc' = "renormalized"
    /\ UNCHANGED <<versionA, versionB, cmpResult, seqResult, extensionName,
                   normalizedName, group, groupStatus, rowStatus,
                   processVars, monitorVars>>

NextName == CallNormalizeExtensionName \/ ReapplyNormalizeExtensionName

SpecName == InitName /\ [][NextName]_vars

-----------------------------------------------------------------------------
(* State machine: the classifiers applied to a group and to its rows *)

\* versions the stores and the registry report in this model
StoreVersions ==
    { <<"1">>,
      <<"1", ".", "0">>,
      <<"1", ".", "1">>,
      <<"1", ".", "2">>,
      <<"2", ".", "0">>,
      <<"0", ".", "9">>,
      <<"1", ".", "0", ".", "0">> }

\* submittedVersion: a version, or undefined, "" or a blank string
SubmittedVersions == StoreVersions \cup {Undefined, <<>>, <<" ">>}

\* a group holds at least one store record
Groups ==
    UNION { [browsers : [1..n -> [version : StoreVersions]],
             submittedVersion : SubmittedVersions] : n \in 1..MaxBrowsers }

InitStatus ==
    /\ pc = "start"
    /\ group \in Groups
    /\ groupStatus = NoStatus
    /\ rowStatus = [i \in 1..Len(group.browsers) |-> "none"]
    /\ versionA = <<>>
    /\ versionB = <<>>
    /\ cmpResult = 0
    /\ seqResult = FALSE
    /\ extensionName = <<>>
    /\ normalizedName = <<>>
    /\ renormalizedName = <<>>
    /\ ProcessIdle
    /\ MonitorIdle

\* ExtensionCard: determineGroupStatus(group)
CallDetermineGroupStatus ==
    /\ groupStatus = NoStatus
    /\ groupStatus' = determineGroupStatus(group)
    /\ pc' = "determineGroupStatus"
    /\ UNCHANGED <<versionA, versionB, cmpResult, seqResult, extensionName,
                   normalizedName, renormalizedName, group, rowStatus,
                   processVars, monitorVars>>

\* BrowserRow of store record i: determineBrowserRowStatus(browser, group)
CallDetermineBrowserRowStatus ==
    \E i \in 1..Len(group.browsers) :
        /\ rowStatus[i] = "none"
        /\ rowStatus' =
             [rowStatus EXCEPT ![i] = determineBrowserRowStatus(group.browsers[i], group)]
        /\ pc' = "determineBrowserRowStatus"
        /\ UNCHANGED <<versionA, versionB, cmpResult, seqResult, extensionName,
                       normalizedName, renormalizedName, group, groupStatus,
                   processVars, monitorVars>>

NextStatus == CallDetermineGroupStatus \/ CallDetermineBrowserRowStatus

SpecStatus == InitStatus /\ [][NextStatus]_vars

-----------------------------------------------------------------------------
(* State machine: processExtensionData applied to a raw feed *)

N_AdBlock == AdBlock
N_AdblockPlus == AdblockPlus
N_AdBlockX == AdBlock \o <<" ", "X">>
N_Ad_Block == <<"A", "d", " ", "B", "l", "o", "c", "k">>
N_X == <<"X">>

\* the raw records of the feeds: extension and name may each be missing or empty,
\* the version is "1", "1.0" or "1.1"
RawRecords ==
    { [extension |-> Undefined,     name |-> N_AdBlock,  version |-> <<"1">>],
      [extension |-> Undefined,     name |-> N_AdBlock,  version |-> <<"1", ".", "0">>],
      [extension |-> Undefined,     name |-> N_AdBlock,  version |-> <<"1", ".", "1">>],
      [extension |-> <<>>,          name |-> N_AdBlockX, version |-> <<"1", ".", "0">>],
      [extension |-> N_AdblockPlus, name |-> Undefined,  version |-> <<"1", ".", "1">>],
      [extension |-> N_X,           name |-> N_AdBlock,  version |-> <<"1">>],
      [extension |-> Undefined,     name |-> N_Ad_Block, version |-> <<"1", ".", "0">>],
      [extension |-> Undefined,     name |-> <<>>,       version |-> <<"1">>],
      [extension |-> Undefined,     name |-> Undefined,  version |-> <<"1">>] }

\* an entry whose value is an array of raw records
ListEntry(key, items) == [key |-> key, isArray |-> TRUE, items |-> items, map |-> EmptyMap]

\* an entry whose value is no array: a string, or an object without the two slugs
OtherEntry(key) == [key |-> key, isArray |-> FALSE, items |-> <<>>, map |-> EmptyMap]

\* the entry of the submission registry
RegistryEntry(map) == [key |-> "gitlab", isArray |-> FALSE, items |-> <<>>, map |-> map]

InfoPlus ==
    [present |-> TRUE, version |-> <<"1", ".", "1">>,
     releaseDate |-> <<"2", "0", "2", "5">>]
InfoBlock ==
    [present |-> TRUE, version |-> <<"1", ".", "0">>,
     releaseDate |-> <<"2", "0", "2", "4">>]

\* what may follow the store lists: nothing, a registry with both records, a
\* registry with the "adblock" record only, or a "gitlab" entry holding a list
RegistryTails(items) ==
    { <<>>,
      <<RegistryEntry([adblockplus |-> InfoPlus, adblock |-> InfoBlock])>>,
      <<RegistryEntry([adblockplus |-> NoInfo, adblock |-> InfoBlock])>>,
      <<ListEntry("gitlab", items)>> }

\* what may stand between the store lists: nothing, or a store whose value is no list
MiddleEntries == { <<>>, <<OtherEntry("edge")>> }

RecordLists == UNION {[1..n -> RawRecords] : n \in 0..MaxRecords}

\* the feeds: the records of a list dealt to the stores "chrome" and "firefox"
Feeds ==
    { [kind |-> "object",
       entries |-> <<ListEntry("chrome", SubSeq(x[1], 1, x[2]))>> \o x[3]
                   \o <<ListEntry("firefox", SubSeq(x[1], x[2] + 1, Len(x[1])))>>
                   \o x[4]] :
          x \in { y \in RecordLists \X (0..MaxRecords) \X MiddleEntries
                          \X RegistryTails(<<>>) : y[2] <= Len(y[1]) } }
    \cup
    { [kind |-> "object",
       entries |-> <<ListEntry("chrome", items), ListEntry("gitlab", items)>>] :
          items \in RecordLists }

InitProcess ==
    /\ pc = "start"
    /\ apiData \in Feeds
    /\ processed = NoResult
    /\ versionA = <<>>
    /\ versionB = <<>>
    /\ cmpResult = 0
    /\ seqResult = FALSE
    /\ extensionName = <<>>
    /\ normalizedName = <<>>
    /\ renormalizedName = <<>>
    /\ group = NoGroup
    /\ groupStatus = NoStatus
    /\ rowStatus = <<>>
    /\ MonitorIdle

CallProcessExtensionData ==
    /\ pc = "start"
    /\ processed' = processExtensionData(apiData)
    /\ pc' = "processExtensionData"
    /\ UNCHANGED <<versionA, versionB, cmpResult, seqResult, extensionName,
                   normalizedName, renormalizedName, group, groupStatus, rowStatus,
                   apiData, monitorVars>>

NextProcess == CallProcessExtensionData

SpecProcess == InitProcess /\ [][NextProcess]_vars

-----------------------------------------------------------------------------
(* State machine: ExtensionMonitor from its mount to the end of its fetch     *)
(* chain, with the route GET of /api/extensions behind it.                    *)
(* variant "page" is the ExtensionMonitor of src/app/page.tsx (an async       *)
(* function with try / catch / finally), variant "component" the one of       *)
(* src/components/extension-monitor.tsx (a then / then / catch / finally      *)
(* chain).  Each handler is one step.                                         *)

StatusOK == 200
StatusNotFound == 404
StatusServerError == 500

\* Response.ok
Ok(r) == r.status \in 200..299

\* the JSON document null, a body that is no JSON, and the body of the route's 500
JsonNull == [kind |-> "null", entries |-> <<>>]
NotJson == [kind |-> "invalid", entries |-> <<>>]
ErrorBody == [kind |-> "object", entries |-> <<OtherEntry("error")>>]

\* the feeds the upstream serves: at most one record in each of two stores,
\* with or without the submission registry
MonitorRecords ==
    { [extension |-> Undefined,     name |-> N_AdBlock, version |-> <<"1", ".", "0">>],
      [extension |-> Undefined,     name |-> N_AdBlock, version |-> <<"1", ".", "1">>],
      [extension |-> N_AdblockPlus, name |-> Undefined, version |-> <<"1", ".", "1">>] }

MonitorLists == {<<>>} \cup {<<r>> : r \in MonitorRecords}

MonitorFeeds ==
    { [kind |-> "object",
       entries |-> <<ListEntry("chrome", x[1]), ListEntry("firefox", x[2])>> \o x[3]] :
          x \in MonitorLists \X MonitorLists
                  \X { <<>>, <<RegistryEntry([adblockplus |-> InfoPlus,
                                              adblock |-> InfoBlock])>> } }

\* what the route's fetch of the feed may yield: a network error, a 404 (its
\* body is never read), or a 200 whose body is a feed, null, or no JSON
UpstreamOutcomes ==
    { [rejected |-> TRUE, status |-> 0, body |-> NoData] }
    \cup { [rejected |-> FALSE, status |-> StatusNotFound, body |-> b] :
               b \in {NotJson, JsonNull} }
    \cup { [rejected |-> FALSE, status |-> StatusOK, body |-> b] :
               b \in MonitorFeeds \cup {JsonNull, NotJson} }

\* the route handler: the feed's document with status 200, or the error
\* document with status 500 when the fetch rejects, answers non-2xx, or its
\* body does not parse
GET(u) ==
    IF u.rejected \/ ~Ok(u) \/ u.body.kind = "invalid"
    THEN [rejected |-> FALSE, status |-> StatusServerError, body |-> ErrorBody]
    ELSE [rejected |-> FALSE, status |-> StatusOK, body |-> u.body]

\* messages of the errors
FailedToFetch == "Failed to fetch"
HttpError(status) == "HTTP error! status: " \o ToString(status)
NullToObject == "Cannot convert undefined or null to object"
UnknownError == "An unknown error occurred"

\* an Error with the message on its way to the catch handler
Raise(message) == [raised |-> TRUE, isError |-> TRUE, message |-> message]

\* the documents a response of /api/extensions can carry
ResponseBodies == MonitorFeeds \cup {JsonNull, ErrorBody}

\* processExtensionData as a function of the response's document
processExtensionDataOf == [data \in ResponseBodies |-> processExtensionData(data)]

\* the component's grouping: the same steps as processExtensionData, with the
\* canonicalization of normalizeExtensionName inlined and null in place of
\* undefined for a group without registry record
groupExtensionsByName == [data \in ResponseBodies |-> processExtensionData(data)]

coreVars == <<pc, versionA, versionB, cmpResult, seqResult, extensionName,
              normalizedName, renormalizedName, group, groupStatus, rowStatus>>

InitMonitor ==
    /\ pc = "start"
    /\ versionA = <<>>
    /\ versionB = <<>>
    /\ cmpResult = 0
    /\ seqResult = FALSE
    /\ extensionName = <<>>
    /\ normalizedName = <<>>
    /\ renormalizedName = <<>>
    /\ group = NoGroup
    /\ groupStatus = NoStatus
    /\ rowStatus = <<>>
    /\ ProcessIdle
    /\ variant \in {"page", "component"}
    /\ mpc = "mounted"
    /\ upstream = NoResponse
    /\ response = NoResponse
    /\ thrown = NoThrown
    /\ extensions = <<>>
    /\ loading = TRUE
    /\ error = Null
    /\ coreCalls = <<>>

\* the effect after the first render issues the one request
UseEffect ==
    /\ mpc = "mounted"
    /\ mpc' = "fetching"
    /\ UNCHANGED <<coreVars, processVars, variant, upstream, response, thrown,
                   extensions, loading, error, coreCalls>>

\* the route runs and its answer reaches the browser
RouteAnswers ==
    /\ mpc = "fetching"
    /\ \E u \in UpstreamOutcomes :
          /\ upstream' = u
          /\ response' = GET(u)
    /\ mpc' = "settled"
    /\ UNCHANGED <<coreVars, processVars, variant, thrown, extensions, loading,
                   error, coreCalls>>

\* the request to /api/extensions fails on the network: fetch rejects
FetchRejects ==
    /\ mpc = "fetching"
    /\ response' = [rejected |-> TRUE, status |-> 0, body |-> NoData]
    /\ mpc' = "settled"
    /\ UNCHANGED <<coreVars, processVars, variant, upstream, thrown, extensions,
                   loading, error, coreCalls>>

\* page: the try block of fetchExtensions after the fetch has settled
FetchExtensionsTry ==
    /\ variant = "page"
    /\ mpc = "settled"
    /\ IF response.rejected
       THEN /\ thrown' = Raise(FailedToFetch)
            /\ mpc' = "catch"
            /\ UNCHANGED <<processVars, extensions, coreCalls>>
       ELSE IF ~Ok(response)
       THEN /\ thrown' = Raise(HttpError(response.status))
            /\ mpc' = "catch"
            /\ UNCHANGED <<processVars, extensions, coreCalls>>
       ELSE LET processedGroups == processExtensionDataOf[response.body] IN
            /\ apiData' = response.body
            /\ processed' = processedGroups
            /\ coreCalls' = Append(coreCalls, response.body)
            /\ IF processedGroups.threw
               THEN /\ thrown' = Raise(NullToObject)
                    /\ mpc' = "catch"
                    /\ UNCHANGED extensions
               ELSE /\ extensions' = processedGroups.groups
                    /\ mpc' = "finally"
                    /\ UNCHANGED thrown
    /\ UNCHANGED <<coreVars, variant, upstream, response, loading, error>>

\* page: catch (err) { setError(...) }
FetchExtensionsCatch ==
    /\ variant = "page"
    /\ mpc = "catch"
    /\ error' = IF thrown.isError THEN thrown.message ELSE UnknownError
    /\ mpc' = "finally"
    /\ UNCHANGED <<coreVars, processVars, variant, upstream, response, thrown,
                   extensions, loading, coreCalls>>

\* a setLoading(false) that runs at the end of the try block only
FetchExtensionsFinallyAfterTryOnly ==
    /\ variant = "page"
    /\ mpc = "finally"
    /\ ~thrown.raised
    /\ loading' = FALSE
    /\ mpc' = "done"
    /\ UNCHANGED <<coreVars, processVars, variant, upstream, response, thrown,
                   extensions, error, coreCalls>>

\* page: finally { setLoading(false) }
FetchExtensionsFinally ==
    /\ variant = "page"
    /\ mpc = "finally"
    /\ loading' = FALSE
    /\ mpc' = "done"
    /\ UNCHANGED <<coreVars, processVars, variant, upstream, response, thrown,
                   extensions, error, coreCalls>>

\* component: .then((res) => res.json()); a rejected fetch skips the handler
ThenJson ==
    /\ variant = "component"
    /\ mpc = "settled"
    /\ IF response.rejected
       THEN /\ thrown' = Raise(FailedToFetch)
            /\ mpc' = "catch"
            /\ UNCHANGED apiData
       ELSE /\ apiData' = response.body
            /\ mpc' = "parsed"
            /\ UNCHANGED thrown
    /\ UNCHANGED <<coreVars, processed, variant, upstream, response, extensions,
                   loading, error, coreCalls>>

\* component: .then((data) => { setExtensions(groupExtensionsByName(data)) })
ThenGroup ==
    /\ variant = "component"
    /\ mpc = "parsed"
    /\ LET grouped == groupExtensionsByName[apiData] IN
          /\ processed' = grouped
          /\ coreCalls' = Append(coreCalls, apiData)
          /\ IF grouped.threw
             THEN /\ thrown' = Raise(NullToObject)
                  /\ mpc' = "catch"
                  /\ UNCHANGED extensions
             ELSE /\ extensions' = grouped.groups
                  /\ mpc' = "finally"
                  /\ UNCHANGED thrown
    /\ UNCHANGED <<coreVars, apiData, variant, upstream, response, loading, error>>

\* component: .catch((err) => setError(err.message))
CatchSetError ==
    /\ variant = "component"
    /\ mpc = "catch"
    /\ error' = thrown.message
    /\ mpc' = "finally"
    /\ UNCHANGED <<coreVars, processVars, variant, upstream, response, thrown,
                   extensions, loading, coreCalls>>

\* component: .finally(() => setLoading(false))
FinallySetLoading ==
    /\ variant = "component"
    /\ mpc = "finally"
    /\ loading' = FALSE
    /\ mpc' = "done"
    /\ UNCHANGED <<coreVars, processVars, variant, upstream, response, thrown,
                   extensions, error, coreCalls>>

NextMonitor ==
    \/ UseEffect
    \/ RouteAnswers
    \/ FetchRejects
    \/ FetchExtensionsTry
    \/ FetchExtensionsCatch
    \/ FetchExtensionsFinally
    \/ ThenJson
    \/ ThenGroup
    \/ CatchSetError
    \/ FinallySetLoading

SpecMonitor == InitMonitor /\ [][NextMonitor]_vars

\* the handlers of a settled promise run: the event loop drains its job queue.
\* Nothing obliges the network to answer.
SpecMonitorFair ==
    /\ SpecMonitor
    /\ WF_vars(FetchExtensionsTry)
    /\ WF_vars(FetchExtensionsCatch)
    /\ WF_vars(FetchExtensionsFinally)
    /\ WF_vars(ThenJson)
    /\ WF_vars(ThenGroup)
    /\ WF_vars(CatchSetError)
    /\ WF_vars(FinallySetLoading)

\* what the component renders
View ==
    IF loading THEN "loading"
    ELSE IF error # Null /\ error # "" THEN "error"
    ELSE "groups"

-----------------------------------------------------------------------------
(* Properties of the version functions *)

AllDigits(s) == \A i \in 1..Len(s) : IsDigit(s[i])

\* the number a segment stands for: its decimal value, 0 when it is no number
SegmentValue(seg) ==
    LET t == Trim(seg)
    IN  IF t # <<>> /\ AllDigits(t) THEN DecimalValue(t) ELSE 0

\* the value of segment i (from 1) of version v, 0 when v has no such segment
SegmentAt(v, i) ==
    LET segs == SplitDot(v)
    IN  IF i > Len(segs) THEN 0 ELSE SegmentValue(segs[i])

SegmentCount(v) == Len(SplitDot(v))

\* every segment is a non-negative integer
WellFormed(v) ==
    \A i \in 1..SegmentCount(v) : SplitDot(v)[i] # <<>> /\ AllDigits(SplitDot(v)[i])

\* no segment is a non-number (an empty or blank segment counts as the number 0)
AllNumeric(v) ==
    \A i \in 1..SegmentCount(v) : AllDigits(Trim(SplitDot(v)[i]))

V_1_2_0 == <<"1", ".", "2", ".", "0">>
V_1_2 == <<"1", ".", "2">>
V_2_0 == <<"2", ".", "0">>
V_1_9_9 == <<"1", ".", "9", ".", "9">>
V_2_0_0 == <<"2", ".", "0", ".", "0">>

\* C1: compareVersions(a, b) compares positions 1..max(len a, len b), a missing
\* segment counting as 0, and returns the first non-zero segmentA - segmentB, or 0
\* when all positions are equal; compare("1.2.0","1.2") = 0, compare("2.0","1.9.9") > 0.
C1_CompareFirstDifference ==
    pc = "compareVersions" =>
        LET n == Max(SegmentCount(versionA), SegmentCount(versionB))
            differing == {i \in 1..n : SegmentAt(versionA, i) # SegmentAt(versionB, i)}
        IN  /\ differing = {} => cmpResult = 0
            /\ differing # {} =>
                 LET k == CHOOSE i \in differing : \A j \in differing : i <= j
                 IN  cmpResult = SegmentAt(versionA, k) - SegmentAt(versionB, k)
            /\ (versionA = V_1_2_0 /\ versionB = V_1_2) => cmpResult = 0
            /\ (versionA = V_2_0 /\ versionB = V_1_9_9) => cmpResult > 0

C1_Witness ==
    /\ pc = "compareVersions"
    /\ versionA = V_2_0
    /\ versionB = V_1_9_9
    /\ cmpResult = 1

\* C2: for well-formed a and b, compareVersions(a, b) = -compareVersions(b, a).
C2_CompareAntisymmetric ==
    (pc = "compareVersions" /\ WellFormed(versionA) /\ WellFormed(versionB)) =>
        cmpResult = 0 - compareVersions(versionB, versionA)

C2_Witness ==
    /\ pc = "compareVersions"
    /\ WellFormed(versionA) /\ WellFormed(versionB)
    /\ SegmentCount(versionA) < SegmentCount(versionB)
    /\ cmpResult > 0
    /\ compareVersions(versionB, versionA) < 0

\* target is current with segment i (from 1) incremented by 1 and every later
\* segment set to 0, read off the segments of target
IsBumpAt(current, target, i) ==
    LET c == SplitDot(current)
        t == SplitDot(target)
    IN  /\ Len(t) = Len(c)
        /\ \A j \in 1..Len(c) :
              t[j] = IF j < i THEN NumberToString(SegmentValue(c[j]))
                     ELSE IF j = i THEN NumberToString(SegmentValue(c[j]) + 1)
                     ELSE <<"0">>

IsBump(current, target) ==
    \E i \in 1..SegmentCount(current) : IsBumpAt(current, target, i)

\* target skips two or more at one position of current and agrees elsewhere
IsSkip(current, target) ==
    /\ SegmentCount(target) = SegmentCount(current)
    /\ \E i \in 1..SegmentCount(current) :
          /\ SegmentAt(target, i) >= SegmentAt(current, i) + 2
          /\ \A j \in 1..SegmentCount(current) :
                j # i => SegmentAt(target, j) = SegmentAt(current, j)

ZeroNonNumeric(v) ==
    LET segs == SplitDot(v)
    IN  JoinStrings([i \in 1..Len(segs) |->
                        IF AllDigits(Trim(segs[i])) THEN segs[i] ELSE <<"0">>])

\* C15 (as claimed): a segment that is no number counts as 0 in both functions:
\* for a current version with such a segment, isSequentialVersionUpdate and
\* compareVersions return what they return for that version with each such segment
\* replaced by 0.
C15_NonNumericSegmentIsZero ==
    ~AllNumeric(versionA) =>
        /\ pc = "compareVersions" =>
              cmpResult = compareVersions(ZeroNonNumeric(versionA), versionB)
        /\ pc = "isSequentialVersionUpdate" =>
              seqResult = isSequentialVersionUpdate(ZeroNonNumeric(versionA), versionB)

-----------------------------------------------------------------------------
(* Properties of the classifiers *)

StoreVersion(i) == group.browsers[i].version

\* store i against the submitted version, under compareVersions
StoreEqual(i) == compareVersions(StoreVersion(i), group.submittedVersion) = 0
StoreBehind(i) == compareVersions(StoreVersion(i), group.submittedVersion) < 0
StoreAhead(i) == compareVersions(StoreVersion(i), group.submittedVersion) > 0

\* store i is a sequential predecessor of the submitted version
StoreSequential(i) == isSequentialVersionUpdate(StoreVersion(i), group.submittedVersion)

Stores == 1..Len(group.browsers)

\* the submitted version is undefined or the empty string
SubmittedMissing == group.submittedVersion \in {Undefined, <<>>}

\* the submitted version is undefined, empty or whitespace-only
SubmittedAbsent ==
    \/ group.submittedVersion = Undefined
    \/ \A k \in 1..Len(group.submittedVersion) : group.submittedVersion[k] = " "

GroupClassified == groupStatus # NoStatus

\* C4: the row of a store is LIVE when the group has no submitted version (none
\* at all: undefined or empty) or the store compares equal to it, PENDING when the
\* store is behind and a sequential predecessor, MISMATCH when it is behind and no
\* sequential predecessor, or ahead.
C4_RowStatusByComparison ==
    \A i \in Stores :
        rowStatus[i] # "none" =>
            /\ (SubmittedMissing \/ (~SubmittedMissing /\ StoreEqual(i)))
                  => rowStatus[i] = "LIVE"
            /\ (~SubmittedMissing /\ StoreBehind(i) /\ StoreSequential(i))
                  => rowStatus[i] = "PENDING"
            /\ (~SubmittedMissing /\ StoreBehind(i) /\ ~StoreSequential(i))
                  => rowStatus[i] = "MISMATCH"
            /\ (~SubmittedMissing /\ StoreAhead(i))
                  => rowStatus[i] = "MISMATCH"

\* the row of store "1.0" against the submitted version "0.9" is MISMATCH
C4_Witness ==
    /\ Len(group.browsers) = 1
    /\ StoreVersion(1) = <<"1", ".", "0">>
    /\ group.submittedVersion = <<"0", ".", "9">>
    /\ rowStatus[1] = "MISMATCH"

\* C5 (as claimed): with a submitted version, a store ahead of it makes the group
\* mismatch, "Version mismatch detected".
C5_AheadForcesMismatch ==
    (GroupClassified /\ ~SubmittedAbsent /\ \E i \in Stores : StoreAhead(i)) =>
        groupStatus = StatusMismatch

\* C6 (as claimed): the group is pending, "Updates pending approval", exactly when it
\* has a submitted version, some store does not compare equal to it, every store
\* behind it is a sequential predecessor, and no store is ahead of it.
C6_PendingExactlyWhen ==
    GroupClassified =>
        ( groupStatus = StatusPending
          <=> /\ ~SubmittedAbsent
              /\ \E i \in Stores : ~StoreEqual(i)
              /\ \A i \in Stores : StoreBehind(i) => StoreSequential(i)
              /\ \A i \in Stores : ~StoreAhead(i) )

\* C7: with a submitted version, a store behind it that is no sequential
\* predecessor makes the group mismatch, "Version mismatch detected", whatever the
\* other stores report.
C7_BehindNonSequentialForcesMismatch ==
    ( /\ GroupClassified
      /\ ~SubmittedAbsent
      /\ \E i \in Stores : StoreBehind(i) /\ ~StoreSequential(i) ) =>
        /\ groupStatus.status = "mismatch"
        /\ groupStatus.message = "Version mismatch detected"

\* stores "1.0" (behind, a skip) and "2.0" (ahead) against the submitted "1.2"
C7_Witness ==
    /\ GroupClassified
    /\ Len(group.browsers) = 2
    /\ StoreVersion(1) = <<"2", ".", "0">>
    /\ StoreVersion(2) = <<"1", ".", "0">>
    /\ group.submittedVersion = <<"1", ".", "2">>
    /\ groupStatus.status = "mismatch"

\* C8: a group whose submitted version is absent (undefined, empty or
\* whitespace-only) is live, "No submission data", whatever the stores report.
C8_NoSubmissionIsLive ==
    (GroupClassified /\ SubmittedAbsent) =>
        /\ groupStatus.status = "live"
        /\ groupStatus.message = "No submission data"

C8_Witness ==
    /\ GroupClassified
    /\ group.submittedVersion = <<" ">>
    /\ groupStatus.status = "live"
    /\ groupStatus.message = "No submission data"

\* C9: with a submitted version to which every store compares equal under
\* compareVersions ("1.0" and "1.0.0" are equal), the group is live, "All versions
\* synchronized", never pending or mismatch.
C9_AllEqualIsSynchronized ==
    (GroupClassified /\ ~SubmittedAbsent /\ \A i \in Stores : StoreEqual(i)) =>
        /\ groupStatus.status = "live"
        /\ groupStatus.message = "All versions synchronized"
        /\ groupStatus.status \notin {"pending", "mismatch"}

C9_Witness ==
    /\ GroupClassified
    /\ Len(group.browsers) = 2
    /\ StoreVersion(1) = <<"1", ".", "0">>
    /\ StoreVersion(2) = <<"1", ".", "0", ".", "0">>
    /\ group.submittedVersion = <<"1">>
    /\ groupStatus.message = "All versions synchronized"

\* C16 (as claimed): whenever the group is live every row of it is LIVE, also when
\* the submitted version is empty or whitespace-only; whenever the group is pending
\* or mismatch some row is not LIVE.
C16_GroupAndRowsAgreeOnLive ==
    (GroupClassified /\ \A i \in Stores : rowStatus[i] # "none") =>
        /\ groupStatus.status = "live" => \A i \in Stores : rowStatus[i] = "LIVE"
        /\ groupStatus.status \in {"pending", "mismatch"} =>
              \E i \in Stores : rowStatus[i] # "LIVE"

-----------------------------------------------------------------------------
(* Properties of normalizeExtensionName *)

\* sub occurs in s as a run of consecutive characters
HasSubstring(s, sub) ==
    \E pre \in 0..Len(s) :
        /\ pre + Len(sub) <= Len(s)
        /\ \A k \in 1..Len(sub) : s[pre + k] = sub[k]

-----------------------------------------------------------------------------
(* Properties of processExtensionData *)

Processed == pc = "processExtensionData"

OutputGroups == processed.groups

\* the record has a name or an extension field (one that holds a name: a field
\* holding the empty string is no name)
HasNameField(r) ==
    \/ (r.extension # Undefined /\ Len(r.extension) > 0)
    \/ (r.name # Undefined /\ Len(r.name) > 0)

\* the store-reported name of a record that has one: extension before name
ReportedName(r) ==
    IF r.extension # Undefined /\ Len(r.extension) > 0 THEN r.extension ELSE r.name

\* the entry is a store feed: not the submission registry, and its value a list
IsStoreList(e) == e.key # "gitlab" /\ e.isArray

\* the records of the store lists from entry i on, in feed order, each with its store
RECURSIVE StoreRecordsFrom(_, _)
StoreRecordsFrom(entries, i) ==
    IF i > Len(entries) THEN <<>>
    ELSE (IF IsStoreList(entries[i])
          THEN [j \in 1..Len(entries[i].items) |->
                   [browser |-> entries[i].key, record |-> entries[i].items[j]]]
          ELSE <<>>)
         \o StoreRecordsFrom(entries, i + 1)

\* the named records of the store lists
NamedStoreRecords ==
    SelectSeq(StoreRecordsFrom(apiData.entries, 1), LAMBDA x : HasNameField(x.record))

\* those whose canonical name is n, as the store records of the output
StoreRecordsNamed(n) ==
    LET mine == SelectSeq(NamedStoreRecords,
                          LAMBDA x : normalizeExtensionName(ReportedName(x.record)) = n)
    IN  [k \in 1..Len(mine) |->
            [browser |-> mine[k].browser, version |-> mine[k].record.version]]

\* C11: the store records of the output are exactly the named records of the store
\* lists (key other than the registry's, value a list): each is in exactly one group,
\* the group of its canonical name; records without name and extension are in no
\* group; a store whose value is no list adds nothing and raises nothing; no group
\* is empty.
C11_GroupingIsPartition ==
    Processed =>
        /\ ~processed.threw
        /\ \A a, b \in 1..Len(OutputGroups) :
              OutputGroups[a].name = OutputGroups[b].name => a = b
        /\ \A a \in 1..Len(OutputGroups) :
              /\ OutputGroups[a].browsers = StoreRecordsNamed(OutputGroups[a].name)
              /\ Len(OutputGroups[a].browsers) > 0
        /\ \A k \in 1..Len(NamedStoreRecords) :
              \E a \in 1..Len(OutputGroups) :
                  OutputGroups[a].name =
                      normalizeExtensionName(ReportedName(NamedStoreRecords[k].record))

\* a feed with a store that is no list, a record named "AdBlock" and a record
\* without name and extension: one group with the one named record
C11_Witness ==
    /\ Processed
    /\ \E i \in 1..Len(apiData.entries) : ~apiData.entries[i].isArray
                                           /\ apiData.entries[i].key = "edge"
    /\ Len(StoreRecordsFrom(apiData.entries, 1)) = 2
    /\ Len(NamedStoreRecords) = 1
    /\ Len(OutputGroups) = 1
    /\ OutputGroups[1].name = AdBlock
    /\ Len(OutputGroups[1].browsers) = 1

GroupVersion(g, i) == g.browsers[i].version

\* the indices of the store records of g that no record of g compares greater than
MaximalRecords(g) ==
    { i \in 1..Len(g.browsers) :
         \A j \in 1..Len(g.browsers) :
             compareVersions(GroupVersion(g, j), GroupVersion(g, i)) <= 0 }

\* C12: latestVersion is the version string of a store record of the group, no
\* store record compares greater than it, and among the records that compare equal
\* to the maximum it is the string of the earliest.
C12_LatestVersionIsEarliestMaximum ==
    Processed =>
        \A a \in 1..Len(OutputGroups) :
            LET g == OutputGroups[a]
            IN  /\ \E i \in 1..Len(g.browsers) : g.latestVersion = GroupVersion(g, i)
                /\ \A i \in 1..Len(g.browsers) :
                      compareVersions(GroupVersion(g, i), g.latestVersion) <= 0
                /\ MaximalRecords(g) # {}
                /\ g.latestVersion =
                      GroupVersion(g, CHOOSE i \in MaximalRecords(g) :
                                          \A j \in MaximalRecords(g) : i <= j)

\* a group of versions "1" then "1.0": they compare equal and latestVersion is "1"
C12_Witness ==
    /\ Processed
    /\ \E a \in 1..Len(OutputGroups) :
          /\ Len(OutputGroups[a].browsers) = 2
          /\ GroupVersion(OutputGroups[a], 1) = <<"1">>
          /\ GroupVersion(OutputGroups[a], 2) = <<"1", ".", "0">>
          /\ OutputGroups[a].latestVersion = <<"1">>

\* the registry of the feed: the mapping under "gitlab", none when there is no such
\* entry or it holds no mapping
Registry ==
    LET at == { i \in 1..Len(apiData.entries) : apiData.entries[i].key = "gitlab" }
    IN  IF at = {} THEN EmptyMap
        ELSE LET e == apiData.entries[CHOOSE i \in at : TRUE]
             IN  IF e.isArray THEN EmptyMap ELSE e.map

\* the group carries the submitted version and release date of this record
\* (nothing when the registry has no such record)
CarriesRecord(g, info) ==
    /\ g.submittedVersion = (IF info.present THEN info.version ELSE Undefined)
    /\ g.releaseDate = (IF info.present THEN info.releaseDate ELSE Undefined)

CarriesNothing(g) == g.submittedVersion = Undefined /\ g.releaseDate = Undefined

\* C13: a group takes submitted version and release date from the registry's
\* "adblockplus" record when its name, lowercased and with whitespace removed,
\* contains "adblockplus", else from the "adblock" record when that slug contains
\* "adblock", and carries neither otherwise; the "Adblock Plus" group never gets the
\* "adblock" record, nor the "AdBlock" group the "adblockplus" record.
C13_SubmissionBySlug ==
    Processed =>
        \A a \in 1..Len(OutputGroups) :
            LET g == OutputGroups[a]
                slug == RemoveWhiteSpace(ToLowerCase(g.name))
            IN  /\ HasSubstring(slug, SlugAdblockPlus)
                      => CarriesRecord(g, Registry.adblockplus)
                /\ (~HasSubstring(slug, SlugAdblockPlus) /\ HasSubstring(slug, SlugAdblock))
                      => CarriesRecord(g, Registry.adblock)
                /\ (~HasSubstring(slug, SlugAdblockPlus) /\ ~HasSubstring(slug, SlugAdblock))
                      => CarriesNothing(g)
                /\ g.name = AdblockPlus => CarriesRecord(g, Registry.adblockplus)
                /\ g.name = AdBlock => CarriesRecord(g, Registry.adblock)

\* both groups, each with the version of its own record
C13_Witness ==
    /\ Processed
    /\ Registry.adblockplus = InfoPlus
    /\ Registry.adblock = InfoBlock
    /\ \E a, b \in 1..Len(OutputGroups) :
          /\ OutputGroups[a].name = AdblockPlus
          /\ OutputGroups[a].submittedVersion = InfoPlus.version
          /\ OutputGroups[b].name = AdBlock
          /\ OutputGroups[b].submittedVersion = InfoBlock.version

-----------------------------------------------------------------------------
(* Properties of the ExtensionMonitor lifecycle *)

\* the fetch of /api/extensions has settled
Settled == mpc \notin {"mounted", "fetching"}

\* the fetch failed: it rejected, or the route answered non-2xx (which it does
\* when its own fetch of the feed rejects, answers non-2xx or does not parse)
FetchFailed == Settled /\ (response.rejected \/ ~Ok(response))

\* C14: whenever the data fetch fails (network error, or a non-2xx answer of
\* the upstream or of /api/extensions), the grouping core is never invoked on
\* the failed response, and the chain ends in the error view with no group
\* displayed.
C14_FailedFetchEndsInError ==
    /\ FetchFailed => coreCalls = <<>>
    /\ (FetchFailed /\ mpc = "done") => (View = "error" /\ extensions = <<>>)

\* C17: the lifecycle starts with loading = true, error = null and
\* extensions = []; once the fetch has settled (success, failure, or an
\* exception thrown while processing) loading eventually becomes false;
\* loading never returns to true; and error is never non-null while
\* extensions is non-empty.
C17_LoadingEndsAndNeverReturns ==
    /\ (loading = TRUE /\ error = Null /\ extensions = <<>>)
    /\ Settled ~> (loading = FALSE)
    /\ [][loading = FALSE => loading' = FALSE]_vars
    /\ [](~(error # Null /\ extensions # <<>>))

\* the chain has ended after the core threw on the JSON document null: the
\* error is set and loading is off
C17_Witness ==
    /\ mpc = "done"
    /\ loading = FALSE
    /\ thrown.raised
    /\ coreCalls = <<JsonNull>>
    /\ error = NullToObject
    /\ extensions = <<>>

====
